---------------------------- MODULE Spec2Model ----------------------------
(***************************************************************************)
(* Two-star polar alignment: compute_alignment_error of                    *)
(* reeven/van/astro/math/alignment_error_util.py as a state machine.       *)
(*                                                                         *)
(* The Python code works on IEEE doubles.  The model works on exact        *)
(* rationals whose numerator and denominator are unbounded naturals (TLC's *)
(* integers are 32 bits wide, so the naturals are kept as limbs).  The     *)
(* values math.cos, math.sin and math.tan return are kept to eight         *)
(* significant digits, with the properties of the doubles that decide a    *)
(* branch kept exactly: cos(0.0) is 1.0, tan(-x) is -tan(x), cos(-x) is    *)
(* cos(x), and cos(pi/2) is the positive double 6.123e-17, not zero.       *)
(***************************************************************************)
EXTENDS Integers, Sequences, FiniteSets

-----------------------------------------------------------------------------
(* Unbounded naturals: little-endian sequences of limbs, no leading zero.  *)

Base == 10000

RECURSIVE NatOf(_)
NatOf(n) == IF n = 0 THEN << >> ELSE << n % Base >> \o NatOf(n \div Base)

RECURSIVE NAddC(_, _, _)
NAddC(a, b, c) ==
    IF a = << >> /\ b = << >>
    THEN (IF c = 0 THEN << >> ELSE << c >>)
    ELSE LET x  == (IF a = << >> THEN 0 ELSE Head(a))
                   + (IF b = << >> THEN 0 ELSE Head(b)) + c
             ta == IF a = << >> THEN << >> ELSE Tail(a)
             tb == IF b = << >> THEN << >> ELSE Tail(b)
         IN  << x % Base >> \o NAddC(ta, tb, x \div Base)

NAdd(a, b) == NAddC(a, b, 0)

RECURSIVE NStrip(_)
NStrip(a) ==
    IF a = << >> THEN << >>
    ELSE IF a[Len(a)] = 0 THEN NStrip(SubSeq(a, 1, Len(a) - 1)) ELSE a

\* -1, 0 or 1 as a < b, a = b or a > b
RECURSIVE NCmpFrom(_, _, _)
NCmpFrom(a, b, i) ==
    IF i = 0 THEN 0
    ELSE IF a[i] < b[i] THEN -1
    ELSE IF a[i] > b[i] THEN 1
    ELSE NCmpFrom(a, b, i - 1)

NCmp(a, b) ==
    IF Len(a) < Len(b) THEN -1
    ELSE IF Len(a) > Len(b) THEN 1
    ELSE NCmpFrom(a, b, Len(a))

\* a - b for a >= b
RECURSIVE NSubB(_, _, _)
NSubB(a, b, br) ==
    IF a = << >> THEN << >>
    ELSE LET y == Head(a) - (IF b = << >> THEN 0 ELSE Head(b)) - br
             tb == IF b = << >> THEN << >> ELSE Tail(b)
         IN  IF y < 0 THEN << y + Base >> \o NSubB(Tail(a), tb, 1)
             ELSE << y >> \o NSubB(Tail(a), tb, 0)

NSub(a, b) == NStrip(NSubB(a, b, 0))

\* a * k for one limb k
RECURSIVE NMulLimbC(_, _, _)
NMulLimbC(a, k, c) ==
    IF a = << >> THEN (IF c = 0 THEN << >> ELSE << c >>)
    ELSE LET x == Head(a) * k + c
         IN  << x % Base >> \o NMulLimbC(Tail(a), k, x \div Base)

NMulLimb(a, k) == IF k = 0 THEN << >> ELSE NMulLimbC(a, k, 0)

NShift(a) == IF a = << >> THEN << >> ELSE << 0 >> \o a

RECURSIVE NMul(_, _)
NMul(a, b) ==
    IF a = << >> \/ b = << >> THEN << >>
    ELSE NAdd(NMulLimb(a, Head(b)), NShift(NMul(a, Tail(b))))

RECURSIVE NPow10(_)
NPow10(e) == IF e = 0 THEN << 1 >> ELSE NMulLimb(NPow10(e - 1), 10)

-----------------------------------------------------------------------------
(* Integers: a sign s in {-1, 0, 1} and a magnitude m.                      *)

ZOf(n) == IF n = 0 THEN [s |-> 0, m |-> << >>]
          ELSE IF n < 0 THEN [s |-> -1, m |-> NatOf(-n)]
          ELSE [s |-> 1, m |-> NatOf(n)]

ZNeg(x) == [s |-> -x.s, m |-> x.m]

ZAdd(x, y) ==
    IF x.s = 0 THEN y
    ELSE IF y.s = 0 THEN x
    ELSE IF x.s = y.s THEN [s |-> x.s, m |-> NAdd(x.m, y.m)]
    ELSE LET c == NCmp(x.m, y.m)
         IN  IF c = 0 THEN [s |-> 0, m |-> << >>]
             ELSE IF c > 0 THEN [s |-> x.s, m |-> NSub(x.m, y.m)]
             ELSE [s |-> y.s, m |-> NSub(y.m, x.m)]

ZMul(x, y) == IF x.s = 0 \/ y.s = 0 THEN [s |-> 0, m |-> << >>]
              ELSE [s |-> x.s * y.s, m |-> NMul(x.m, y.m)]

ZMulNat(x, n) == IF x.s = 0 THEN x ELSE [s |-> x.s, m |-> NMul(x.m, n)]

\* the sign of x - y
ZCmp(x, y) == ZAdd(x, ZNeg(y)).s

-----------------------------------------------------------------------------
(* Rationals n / d, d a positive natural.  Zero is kept as 0 / 1, and      *)
(* common factors of Base are cancelled; equality is QEq, not =.           *)

RECURSIVE QNorm(_)
QNorm(q) ==
    IF q.n.s = 0 THEN [n |-> q.n, d |-> << 1 >>]
    ELSE IF Head(q.n.m) = 0 /\ Head(q.d) = 0
         THEN QNorm([n |-> [s |-> q.n.s, m |-> Tail(q.n.m)], d |-> Tail(q.d)])
         ELSE q

QOf(n) == [n |-> ZOf(n), d |-> << 1 >>]

\* the decimal n / 10^e
Dec(n, e) == QNorm([n |-> ZOf(n), d |-> NPow10(e)])

QNeg(x) == [n |-> ZNeg(x.n), d |-> x.d]

QAdd(x, y) ==
    IF x.d = y.d THEN QNorm([n |-> ZAdd(x.n, y.n), d |-> x.d])
    ELSE QNorm([n |-> ZAdd(ZMulNat(x.n, y.d), ZMulNat(y.n, x.d)),
                d |-> NMul(x.d, y.d)])

QSub(x, y) == QAdd(x, QNeg(y))

QMul(x, y) == QNorm([n |-> ZMul(x.n, y.n), d |-> NMul(x.d, y.d)])

QIsZero(x) == x.n.s = 0

\* x / y for y # 0
QDiv(x, y) ==
    QNorm([n |-> [s |-> x.n.s * y.n.s, m |-> NMul(x.n.m, y.d)],
           d |-> NMul(x.d, y.n.m)])

\* the sign of x - y
QCmp(x, y) == ZCmp(ZMulNat(x.n, y.d), ZMulNat(y.n, x.d))

QEq(x, y) == QCmp(x, y) = 0

QAbs(x) == [n |-> [s |-> x.n.s * x.n.s, m |-> x.n.m], d |-> x.d]


-----------------------------------------------------------------------------
(* astropy Angle: a value and the unit it is given in.  A radian measure   *)
(* is counted in ticks of one arcsecond (pi/648000 rad).  The value of an  *)
(* Angle given in radians is counted in multiples of pi/2160 (300 ticks),  *)
(* so that the angles of the model have integer values in that unit too.   *)

Units == {"arcsec", "arcmin", "deg", "hourangle", "rad"}

TicksPer(u) ==
    CASE u = "arcsec"    -> 1
      [] u = "arcmin"    -> 60
      [] u = "deg"       -> 3600
      [] u = "hourangle" -> 54000
      [] u = "rad"       -> 300

Angle(v, u) == [value |-> v, unit |-> u]

\* Angle.radian
radian(a) == a.value * TicksPer(a.unit)

SkyCoord(ra, dec) == [ra |-> ra, dec |-> dec]

\* Angle.to(u), where the value in u is an integer
Convertible(a, u) == radian(a) % TicksPer(u) = 0

to(a, u) == IF Convertible(a, u) THEN Angle(radian(a) \div TicksPer(u), u) ELSE a

\* An Angle a float has multiplied: its value is a rational.
radianQ(a) == QMul(a.value, QOf(TicksPer(a.unit)))

\* float * Angle keeps the Angle's unit
AngleTimes(q, a) == [value |-> QMul(q, QOf(a.value)), unit |-> a.unit]

\* The mutant of AngleAdd: the second value is added as it stands.
AngleAdd_NoConversion(x, y) ==
    [value |-> QAdd(x.value, y.value), unit |-> x.unit]

\* Angle + Angle converts the second operand to the unit of the first
AngleAdd(x, y) ==
    [value |-> QAdd(x.value,
                    QDiv(QMul(y.value, QOf(TicksPer(y.unit))),
                         QOf(TicksPer(x.unit)))),
     unit |-> x.unit]

-----------------------------------------------------------------------------
(* math.cos, math.sin, math.tan on the angles of the model (in ticks): the *)
(* doubles libm returns, to eight significant digits.                      *)

CosTab ==
    [t \in {0, 108000, 153600, 324000, 432000, 648000, 1080000,
            162000, 810000, 1242000} |->
        CASE t = 0       -> QOf(1)                \* cos(0.0) = 1.0
          [] t = 108000  -> Dec(8660254, 7)       \* 30d
          [] t = 153600  -> Dec(73530901, 8)      \* 42d40m
          [] t = 162000  -> Dec(70710678, 8)      \* 45d, 3h
          [] t = 324000  -> Dec(6123234, 23)      \* 90d: 6.123233995736766e-17
          [] t = 432000  -> Dec(-5, 1)            \* 120d, 8h
          [] t = 648000  -> QOf(-1)               \* 180d, 12h: cos(pi) = -1.0
          [] t = 810000  -> Dec(-70710678, 8)     \* 225d, 15h
          [] t = 1080000 -> Dec(5, 1)             \* 300d, 20h
          [] t = 1242000 -> Dec(96592583, 8)]     \* 345d, 23h

SinTab ==
    [t \in {162000, 810000, 1242000} |->
        CASE t = 162000  -> Dec(70710678, 8)
          [] t = 810000  -> Dec(-70710678, 8)
          [] t = 1242000 -> Dec(-25881905, 8)]

TanTab ==
    [t \in {162000, 172800} |->
        CASE t = 162000 -> QOf(1)                 \* 45d
          [] t = 172800 -> Dec(11106125, 7)]      \* 48d

math_cos(x) == CosTab[IF x < 0 THEN -x ELSE x]

math_sin(x) == SinTab[x]

math_tan(x) == IF x < 0 THEN QNeg(TanTab[-x]) ELSE TanTab[x]

-----------------------------------------------------------------------------
(* compute_alignment_error                                                  *)

\* Mutants of Determinant.
Determinant_PlusCos(lat, s1, s2) ==
    QMul(QMul(math_cos(radian(lat)),
              QAdd(math_tan(radian(s1.dec)), math_tan(radian(s2.dec)))),
         QAdd(QOf(1), math_cos(radian(s1.ra) - radian(s2.ra))))

Determinant_MinusTan(lat, s1, s2) ==
    QMul(QMul(math_cos(radian(lat)),
              QSub(math_tan(radian(s1.dec)), math_tan(radian(s2.dec)))),
         QSub(QOf(1), math_cos(radian(s1.ra) - radian(s2.ra))))

Determinant(lat, s1, s2) ==
    QMul(QMul(math_cos(radian(lat)),
              QAdd(math_tan(radian(s1.dec)), math_tan(radian(s2.dec)))),
         QSub(QOf(1), math_cos(radian(s1.ra) - radian(s2.ra))))

A11(lat, s1, s2, d) ==
    QDiv(QMul(math_cos(radian(lat)),
              QSub(math_sin(radian(s2.ra)), math_sin(radian(s1.ra)))),
         d)

\* The mutants of A12: the leading minus lost; cos(s1.ra) used twice.
A12_NoMinus(lat, s1, s2, d) ==
    QDiv(QMul(math_cos(radian(lat)),
              QSub(QMul(math_tan(radian(s1.dec)), math_cos(radian(s1.ra))),
                   QMul(math_tan(radian(s2.dec)), math_cos(radian(s2.ra))))),
         d)

A12_SameCos(lat, s1, s2, d) ==
    QDiv(QMul(QNeg(math_cos(radian(lat))),
              QSub(QMul(math_tan(radian(s1.dec)), math_cos(radian(s1.ra))),
                   QMul(math_tan(radian(s2.dec)), math_cos(radian(s1.ra))))),
         d)

A12(lat, s1, s2, d) ==
    QDiv(QMul(QNeg(math_cos(radian(lat))),
              QSub(QMul(math_tan(radian(s1.dec)), math_cos(radian(s1.ra))),
                   QMul(math_tan(radian(s2.dec)), math_cos(radian(s2.ra))))),
         d)

A21(lat, s1, s2, d) ==
    QDiv(QSub(math_cos(radian(s1.ra)), math_cos(radian(s2.ra))), d)

A22(lat, s1, s2, d) ==
    QDiv(QSub(QMul(math_tan(radian(s2.dec)), math_sin(radian(s2.ra))),
              QMul(math_tan(radian(s1.dec)), math_sin(radian(s1.ra)))),
         d)

\* The mutant of Project: the second error is not multiplied in.
Project_NoErrDec(a1, a2, err_ra, err_dec) ==
    AngleAdd(AngleTimes(a1, err_ra), [value |-> a2, unit |-> err_ra.unit])

\* a1 * err_ra + a2 * err_dec
Project(a1, a2, err_ra, err_dec) ==
    AngleAdd(AngleTimes(a1, err_ra), AngleTimes(a2, err_dec))

Offset(lat, s1, s2, err_ra, err_dec, d) ==
    [outcome |-> "return",
     delta_e |-> Project(A11(lat, s1, s2, d), A12(lat, s1, s2, d), err_ra, err_dec),
     delta_a |-> Project(A21(lat, s1, s2, d), A22(lat, s1, s2, d), err_ra, err_dec)]

ZeroDivisionError == [outcome |-> "ZeroDivisionError"]

\* The mutant of compute_alignment_error: a zero error returns a zero offset
\* before anything is divided.
compute_alignment_error_ZeroShortcut(lat, s1, s2, err_ra, err_dec) ==
    IF err_ra.value = 0 /\ err_dec.value = 0
    THEN [outcome |-> "return",
          delta_e |-> [value |-> QOf(0), unit |-> err_ra.unit],
          delta_a |-> [value |-> QOf(0), unit |-> err_ra.unit]]
    ELSE LET d == Determinant(lat, s1, s2)
         IN  IF QIsZero(d) THEN ZeroDivisionError
             ELSE Offset(lat, s1, s2, err_ra, err_dec, d)

\* The mutant of compute_alignment_error: a determinant below 1e-9 is refused.
compute_alignment_error_EpsilonGuard(lat, s1, s2, err_ra, err_dec) ==
    LET d == Determinant(lat, s1, s2)
    IN  IF QCmp(QAbs(d), Dec(1, 9)) < 0 THEN ZeroDivisionError
        ELSE Offset(lat, s1, s2, err_ra, err_dec, d)

\* A float division by d = 0.0 raises ZeroDivisionError at a11; nothing
\* catches it and no other statement can raise.
compute_alignment_error(lat, s1, s2, err_ra, err_dec) ==
    LET d == Determinant(lat, s1, s2)
    IN  IF QIsZero(d) THEN ZeroDivisionError
        ELSE Offset(lat, s1, s2, err_ra, err_dec, d)

-----------------------------------------------------------------------------
(* The calls: a caller picks the arguments, calls compute_alignment_error, *)
(* and may call it again with arguments derived from those of the call     *)
(* before (errors scaled, stars exchanged, units changed, new errors).     *)

VARIABLES lat, s1, s2, err_ra, err_dec, pc, result, prev, rel, calls

vars == << lat, s1, s2, err_ra, err_dec, pc, result, prev, rel, calls >>

\* calls of one run
MaxCalls == 2

\* The arguments of test_compute_alignment_error, and others beside them.
Lats == { Angle(2560, "arcmin"), Angle(90, "deg"), Angle(-30, "deg") }

\* the first star, and the second: among the pairs are equal and antipodal
\* hour angles, and declinations that are equal and that sum to zero
FirstStars ==
    { SkyCoord(ra, dec) : ra \in { Angle(3, "hourangle"), Angle(15, "hourangle") },
                          dec \in { Angle(48, "deg"), Angle(45, "deg") } }

SecondStars ==
    { SkyCoord(ra, dec) : ra \in { Angle(3, "hourangle"), Angle(15, "hourangle"),
                                   Angle(23, "hourangle") },
                          dec \in { Angle(45, "deg"), Angle(-45, "deg") } }

ErrPairs == { << Angle(-12, "arcmin"), Angle(-21, "arcmin") >>,
              << Angle(0, "arcmin"), Angle(0, "arcmin") >>,
              << Angle(5, "arcmin"), Angle(-120, "arcsec") >> }

Scalars == { -1, 0, 2 }

NoCall == [outcome |-> "none"]

Args == [lat |-> lat, s1 |-> s1, s2 |-> s2, err_ra |-> err_ra, err_dec |-> err_dec]

Init ==
    /\ lat \in Lats
    /\ s1 \in FirstStars
    /\ s2 \in SecondStars
    /\ \E e \in ErrPairs : err_ra = e[1] /\ err_dec = e[2]
    /\ pc = "ready"
    /\ result = NoCall
    /\ prev = NoCall
    /\ rel = [kind |-> "first"]
    /\ calls = 0

\* The call: it returns the offset or raises.
Call ==
    /\ pc = "ready"
    /\ result' = compute_alignment_error(lat, s1, s2, err_ra, err_dec)
    /\ pc' = "done"
    /\ calls' = calls + 1
    /\ UNCHANGED << lat, s1, s2, err_ra, err_dec, prev, rel >>

Again(kind, k) ==
    /\ pc = "done"
    /\ calls < MaxCalls
    /\ prev' = [args |-> Args, result |-> result]
    /\ rel' = [kind |-> kind, k |-> k]
    /\ result' = NoCall
    /\ pc' = "ready"
    /\ UNCHANGED calls

\* the next call's errors are k times those of this call
Scale ==
    \E k \in Scalars :
        /\ Again("scale", k)
        /\ err_ra' = Angle(k * err_ra.value, err_ra.unit)
        /\ err_dec' = Angle(k * err_dec.value, err_dec.unit)
        /\ UNCHANGED << lat, s1, s2 >>

\* the next call's stars are those of this call, exchanged
Swap ==
    /\ Again("swap", 0)
    /\ s1' = s2
    /\ s2' = s1
    /\ UNCHANGED << lat, err_ra, err_dec >>

\* the next call's angles are those of this call, given in unit u where u
\* holds them
Reunit ==
    \E u \in Units :
        /\ Again("unit", 0)
        /\ lat' = to(lat, u)
        /\ s1' = SkyCoord(to(s1.ra, u), to(s1.dec, u))
        /\ s2' = SkyCoord(to(s2.ra, u), to(s2.dec, u))
        /\ err_ra' = to(err_ra, u)
        /\ err_dec' = to(err_dec, u)

\* the next call's errors are others, with the same latitude and stars
ChangeErr ==
    \E e \in ErrPairs :
        /\ << err_ra, err_dec >> # e
        /\ Again("err", 0)
        /\ err_ra' = e[1]
        /\ err_dec' = e[2]
        /\ UNCHANGED << lat, s1, s2 >>

Next == Call \/ Scale \/ Swap \/ Reunit \/ ChangeErr

Spec == Init /\ [][Next]_vars

-----------------------------------------------------------------------------
(* What the specification says of a call, in its own words (section 4.1    *)
(* and 4.2), on the arguments of the state.                                 *)

Cos(a) == math_cos(radian(a))
Sin(a) == math_sin(radian(a))
Tan(a) == math_tan(radian(a))

Spec_d ==
    QMul(QMul(Cos(lat), QAdd(Tan(s1.dec), Tan(s2.dec))),
         QSub(QOf(1), math_cos(radian(s1.ra) - radian(s2.ra))))

Spec_a11 == QDiv(QMul(Cos(lat), QSub(Sin(s2.ra), Sin(s1.ra))), Spec_d)

Spec_a12 ==
    QDiv(QNeg(QMul(Cos(lat),
                   QSub(QMul(Tan(s1.dec), Cos(s1.ra)),
                        QMul(Tan(s2.dec), Cos(s2.ra))))),
         Spec_d)

Spec_a21 == QDiv(QSub(Cos(s1.ra), Cos(s2.ra)), Spec_d)

Spec_a22 ==
    QDiv(QSub(QMul(Tan(s2.dec), Sin(s2.ra)), QMul(Tan(s1.dec), Sin(s1.ra))),
         Spec_d)

\* the radian measures (in ticks) of the offset the specification gives
Spec_delta_alt ==
    QAdd(QMul(Spec_a11, QOf(radian(err_ra))), QMul(Spec_a12, QOf(radian(err_dec))))

Spec_delta_az ==
    QAdd(QMul(Spec_a21, QOf(radian(err_ra))), QMul(Spec_a22, QOf(radian(err_dec))))

Done == pc = "done"
Returned == Done /\ result.outcome = "return"
Raised == Done /\ result.outcome = "ZeroDivisionError"

EqualRA == radian(s1.ra) = radian(s2.ra)
Antipodal == radian(s1.ra) - radian(s2.ra) \in { 648000, -648000 }
DecSumZero == radian(s1.dec) + radian(s2.dec) = 0

\* the threshold the specification calls a small epsilon
Epsilon == Dec(1, 9)

NearZero(q) == QCmp(QAbs(q), Epsilon) < 0

\* the two offsets are the same angle
SameOffset(r, q) ==
    /\ QEq(radianQ(r.delta_e), radianQ(q.delta_e))
    /\ QEq(radianQ(r.delta_a), radianQ(q.delta_a))

\* offset r is k times offset q
ScaledOffset(r, k, q) ==
    /\ QEq(radianQ(r.delta_e), QMul(QOf(k), radianQ(q.delta_e)))
    /\ QEq(radianQ(r.delta_a), QMul(QOf(k), radianQ(q.delta_a)))

-----------------------------------------------------------------------------
-----------------------------------------------------------------------------
-----------------------------------------------------------------------------
\* the arguments of test_compute_alignment_error
FixtureArgs ==
    [lat |-> Angle(2560, "arcmin"),
     s1 |-> SkyCoord(Angle(3, "hourangle"), Angle(48, "deg")),
     s2 |-> SkyCoord(Angle(23, "hourangle"), Angle(45, "deg")),
     err_ra |-> Angle(-12, "arcmin"),
     err_dec |-> Angle(-21, "arcmin")]

\* 1e-4 arcmin
Tolerance == Dec(1, 4)

\* angle a is within Tolerance of q arcmin
WithinTolerance(a, q) ==
    QCmp(QAbs(QSub(radianQ(a), QMul(q, QOf(60)))), QMul(Tolerance, QOf(60))) <= 0

\* C3: a call on a non-singular input returns delta_alt = a11*err_ra +
\* a12*err_dec and delta_az = a21*err_ra + a22*err_dec with the a's and d of
\* section 4.1; on the test's arguments that is 7.3897' and 32.2597'.
C3_OffsetFormula ==
    (Done /\ ~QIsZero(Spec_d)) =>
        /\ Returned
        /\ QEq(radianQ(result.delta_e), Spec_delta_alt)
        /\ QEq(radianQ(result.delta_a), Spec_delta_az)
        /\ Args = FixtureArgs =>
              /\ WithinTolerance(result.delta_e, Dec(73897, 4))
              /\ WithinTolerance(result.delta_a, Dec(322597, 4))

C3_Witness ==
    /\ Returned
    /\ Args = FixtureArgs
    /\ result.delta_e.unit = "arcmin"

-----------------------------------------------------------------------------
\* C4: with latitude and stars fixed and non-singular, scaling both errors
\* by k scales both components of the offset by exactly k; a zero error
\* gives a zero offset.
C4_Linearity ==
    /\ (Done /\ rel.kind = "scale" /\ prev.result.outcome = "return") =>
          /\ Returned
          /\ ScaledOffset(result, rel.k, prev.result)
    /\ (Returned /\ err_ra.value = 0 /\ err_dec.value = 0) =>
          /\ QIsZero(result.delta_e.value)
          /\ QIsZero(result.delta_a.value)

C4_Witness ==
    /\ Returned
    /\ rel.kind = "scale"
    /\ rel.k = 2
    /\ ~QIsZero(prev.result.delta_e.value)
    /\ ~QIsZero(prev.result.delta_a.value)
    /\ err_dec.value # 0

-----------------------------------------------------------------------------
\* C7: the same angles given in other units give the same offset (and the
\* same failure).
C7_UnitIndependence ==
    (Done /\ rel.kind = "unit") =>
        /\ result.outcome = prev.result.outcome
        /\ Returned => SameOffset(result, prev.result)

C7_Witness ==
    /\ Returned
    /\ rel.kind = "unit"
    /\ lat.unit = "rad" /\ prev.args.lat.unit = "arcmin"
    /\ s1.ra.unit = "rad" /\ prev.args.s1.ra.unit = "hourangle"
    /\ err_ra.unit = "rad" /\ prev.args.err_ra.unit = "arcmin"
    /\ err_dec.unit = "arcsec"
    /\ ~QIsZero(result.delta_e.value)

-----------------------------------------------------------------------------
\* C8 as stated: equal hour angles, antipodal hour angles, or declinations
\* that sum to zero make d zero within epsilon, and no offset is returned.
C8_DegeneratePairsWithAntipodal ==
    (Done /\ (EqualRA \/ Antipodal \/ DecSumZero)) =>
        /\ NearZero(Spec_d)
        /\ result.outcome # "return"

\* C8, amended: equal hour angles, or declinations that sum to zero, make d
\* exactly zero and the call raise, for every latitude.  (Antipodal hour
\* angles make 1 - cos(ra1 - ra2) = 2, its largest value, and the call
\* return unless the declinations sum to zero.)
C8_DegeneratePairs ==
    /\ (Done /\ (EqualRA \/ DecSumZero)) =>
          /\ QIsZero(Spec_d)
          /\ result = ZeroDivisionError
    /\ (Done /\ Antipodal /\ ~DecSumZero) =>
          /\ Returned
          /\ QEq(Spec_d, QMul(QOf(2), QMul(Cos(lat), QAdd(Tan(s1.dec), Tan(s2.dec)))))

C8_Witness ==
    /\ Raised
    /\ DecSumZero
    /\ ~EqualRA
    /\ ~Antipodal

-----------------------------------------------------------------------------
\* C9: whether the call fails is decided by latitude and stars alone: a call
\* with other errors (a zero error included) on the same latitude and stars
\* fails if and only if this one does, and a failure carries no offset.
C9_FailureIndependentOfErrors ==
    (Done /\ rel.kind \in {"err", "scale"}) =>
        /\ result.outcome = prev.result.outcome
        /\ result.outcome # "return" => result = ZeroDivisionError

C9_Witness ==
    /\ Raised
    /\ rel.kind = "err"
    /\ err_ra.value = 0 /\ err_dec.value = 0
    /\ prev.args.err_ra.value # 0
    /\ prev.result = ZeroDivisionError

-----------------------------------------------------------------------------
\* C10: exchanging the two stars negates both components of the offset, and
\* the exchanged pair is singular exactly when the pair is.
C10_SwapNegates ==
    (Done /\ rel.kind = "swap") =>
        /\ result.outcome = prev.result.outcome
        /\ Returned => ScaledOffset(result, -1, prev.result)

C10_Witness ==
    /\ Returned
    /\ rel.kind = "swap"
    /\ s1 # s2
    /\ ~QIsZero(result.delta_e.value)
    /\ ~QIsZero(result.delta_a.value)

=============================================================================
